---- MODULE Spec2Model ----
(***************************************************************************)
(* Model of src/main.py: the concurrent fetch of per-ticker price          *)
(* histories (asyncio.gather over get_token_price_history), and the        *)
(* synchronous pandas pipeline that main runs on the result                *)
(* (historical_prices_to_df, make_table_df, calculate_price_ratio,         *)
(* calculate_profit, print, show_chart).                                   *)
(*                                                                         *)
(* Numbers: prices are integers and the ratio / profit columns are exact   *)
(* rationals [n, d] in lowest terms; d = 0 encodes the IEEE results of a   *)
(* float division by zero (n = 1: inf, n = -1: -inf, n = 0: NaN).          *)
(***************************************************************************)
EXTENDS Integers, Sequences, FiniteSets, TLC

VARIABLES
    ticker_list,   \* main: TICKER_LIST
    api,           \* the remote API: ticker -> [status_code, json]
    task,          \* state of the task gather made for each list entry
    results,       \* result of each finished task, by list position
    requests,      \* tickers a GET was issued for, in order of issue
    arrival,       \* list positions in the order their responses arrived
    gathered,      \* the future asyncio.gather returned
    pc,            \* position of main
    token_prices,  \* main: token_prices
    df,            \* main: df after historical_prices_to_df
    table,         \* main: df after make_table_df and the steps after it
    deposit,       \* the deposit calculate_profit was called with
    error,         \* the exception that ended main
    printed,       \* what print(df.to_string()) wrote
    chart          \* what show_chart displayed

vars == <<ticker_list, api, task, results, requests, arrival, gathered, pc,
          token_prices, df, table, deposit, error, printed, chart>>

(***************************************************************************)
(* Bounds and input domains                                                *)
(***************************************************************************)
MaxTickers == 2
MaxRows == 3

OK == 200
DEPOSIT == 1000

Tickers == {"AAA", "BBB", "CCC"}
PipeTickers == {"AAA", "BBB"}
StatusCodes == {OK, 404, 500}
RawDates == {<<2021, 1, 1>>, <<2021, 1, 15>>, <<2021, 2, 1>>}
Prices == {-90, 0, 90, 100, 150}
Deposits == {DEPOSIT, 250}

Sample(d, p, t) ==
    [date |-> d, price |-> p, contract_metadata |-> [contract_ticker_symbol |-> t]]

Json(prices) == [data |-> [prices |-> prices]]

\* Sequences without repetition over S, of length lo..hi.
InjectiveSeqs(S, lo, hi) ==
    UNION {{s \in [1..n -> S] : \A i, j \in 1..n : s[i] = s[j] => i = j} : n \in lo..hi}

\* The price series (01-01, 100), (01-15, 150), (02-01, 90) for ticker t.
ScenarioPrices(t) ==
    <<Sample(<<2021, 1, 1>>, 100, t), Sample(<<2021, 1, 15>>, 150, t),
      Sample(<<2021, 2, 1>>, 90, t)>>

\* The histories of the fetch specification: none, one day, and two days
\* returned latest first.
FetchHistories(t) ==
    {<<>>, <<Sample(<<2021, 1, 15>>, 0, t)>>,
     <<Sample(<<2021, 2, 1>>, 90, t), Sample(<<2021, 1, 1>>, 100, t)>>}

NoError == [kind |-> "none", ticker |-> "", status_code |-> 0]
NoFuture == [state |-> "none", value |-> <<>>, exc |-> NoError]
NoChart == [shown |-> FALSE, title |-> "", y |-> <<>>]
NotPrinted == [done |-> FALSE, text |-> <<>>]

(***************************************************************************)
(* Arithmetic of the float columns                                         *)
(***************************************************************************)
Abs(x) == IF x < 0 THEN -x ELSE x

Sign(x) == IF x > 0 THEN 1 ELSE IF x < 0 THEN -1 ELSE 0

RECURSIVE GCD(_, _)
GCD(a, b) == IF b = 0 THEN a ELSE GCD(b, a % b)

\* a / b as pandas divides two float columns: no exception on a zero divisor.
Div(a, b) ==
    IF b = 0 THEN [n |-> Sign(a), d |-> 0]
    ELSE LET g == GCD(Abs(a), Abs(b))
         IN  [n |-> (Sign(b) * a) \div g, d |-> Abs(b) \div g]

\* r * k for a column value r and the scalar k.
Mul(r, k) ==
    IF r.d = 0 THEN [n |-> Sign(r.n * k), d |-> 0] ELSE Div(r.n * k, r.d)

\* r - k for a column value r and the scalar k.
Sub(r, k) ==
    IF r.d = 0 THEN r ELSE Div(r.n - k * r.d, r.d)

(***************************************************************************)
(* historical_prices_to_df                                                 *)
(***************************************************************************)
\* The records of the first element only.
PullRecordsFirstOnly(prices_list) ==
    IF prices_list = <<>> THEN <<>> ELSE Head(prices_list).data.prices

RECURSIVE PullRecords(_)
\* json_normalize(record_path=[["data", "prices"]]): the records of every
\* element's data.prices, in list order.
PullRecords(prices_list) ==
    IF prices_list = <<>> THEN <<>>
    ELSE Head(prices_list).data.prices \o PullRecords(Tail(prices_list))

\* json_normalize flattens a nested record into dotted column names.
NestedToRecord(rec) ==
    ("date" :> rec.date) @@ ("price" :> rec.price) @@
    ("contract_metadata.contract_ticker_symbol" :> rec.contract_metadata.contract_ticker_symbol)

JsonNormalize(prices_list) ==
    LET recs == PullRecords(prices_list)
    IN  [i \in 1..Len(recs) |-> NestedToRecord(recs[i])]

\* The columns of a frame; a frame built from no records has none.
Columns(frame) == IF Len(frame) = 0 THEN {} ELSE DOMAIN frame[1]

NeededColumns == {"date", "price", "contract_metadata.contract_ticker_symbol"}

DaysInMonth == <<31, 28, 31, 30, 31, 30, 31, 31, 30, 31, 30, 31>>

RECURSIVE DaysBeforeMonth(_)
DaysBeforeMonth(m) == IF m = 1 THEN 0 ELSE DaysInMonth[m - 1] + DaysBeforeMonth(m - 1)

\* pd.to_datetime of an ISO date of 2021, as the day's ordinal in that year.
ToDatetime(d) == DaysBeforeMonth(d[2]) + d[3]

\* pd.to_numeric(downcast="float"): the integers of the model are exact floats.
ToNumeric(p) == p

\* df.loc[:, [...]], the renaming of the columns and the two conversions.
SelectRename(frame) ==
    [i \in 1..Len(frame) |->
        [date |-> ToDatetime(frame[i]["date"]),
         price |-> ToNumeric(frame[i]["price"]),
         ticker |-> frame[i]["contract_metadata.contract_ticker_symbol"]]]

HistoricalPricesToDf ==
    /\ pc = "fetched"
    /\ LET frame == JsonNormalize(token_prices)
       IN  IF NeededColumns \subseteq Columns(frame)
           THEN /\ df' = SelectRename(frame)
                /\ pc' = "df"
                /\ error' = error
           ELSE /\ error' = [kind |-> "KeyError", ticker |-> "", status_code |-> 0]
                /\ pc' = "failed"
                /\ df' = df
    /\ UNCHANGED <<ticker_list, api, task, results, requests, arrival, gathered,
                   token_prices, table, deposit, printed, chart>>

(***************************************************************************)
(* make_table_df                                                           *)
(***************************************************************************)
GroupKeys(frame) == {frame[i].ticker : i \in 1..Len(frame)}

GroupRows(frame, t) == {i \in 1..Len(frame) : frame[i].ticker = t}

SetMin(S) == CHOOSE x \in S : \A y \in S : x <= y

\* groupby("ticker")["price"].idxmin(): the label of the first row of the
\* group that holds the group's smallest price.
IdxMin(frame, t) ==
    SetMin({i \in GroupRows(frame, t) :
                \A j \in GroupRows(frame, t) : frame[i].price <= frame[j].price})

\* idxmin where idxmax was meant.
IdxMaxAsMin(frame, t) == IdxMin(frame, t)

\* groupby("ticker")["price"].idxmax(), likewise for the largest price.
IdxMax(frame, t) ==
    SetMin({i \in GroupRows(frame, t) :
                \A j \in GroupRows(frame, t) : frame[j].price <= frame[i].price})

\* Insertion of a row after the rows of s dated no later than it.
InsertByDate(s, r) ==
    LET k == Cardinality({i \in 1..Len(s) : s[i].date <= r.date})
    IN  SubSeq(s, 1, k) \o <<r>> \o SubSeq(s, k + 1, Len(s))

RECURSIVE SortValuesUpTo(_, _)
SortValuesUpTo(frame, n) ==
    IF n = 0 THEN <<>> ELSE InsertByDate(SortValuesUpTo(frame, n - 1), frame[n])

\* The frame left in the order of its rows.
SortValuesNone(frame) == frame

\* df.sort_values("date")
SortValues(frame) == SortValuesUpTo(frame, Len(frame))

\* groupby(by="ticker").agg("first") of one column: the column's value in the
\* first row of the group.
AggFirst(frame, t, col) == frame[SetMin(GroupRows(frame, t))][col]

\* groupby(by="ticker").agg("last") of one column.
AggLast(frame, t, col) ==
    LET last == CHOOSE i \in GroupRows(frame, t) : \A j \in GroupRows(frame, t) : j <= i
    IN  frame[last][col]

\* One row of the joined table: the (date, price) x (first, last, max, min)
\* columns of ticker t.
SummaryRow(frame, t) ==
    LET sorted == SortValues(frame)
        rmax == frame[IdxMax(frame, t)]
        rmin == frame[IdxMin(frame, t)]
    IN  [date |-> [first |-> AggFirst(sorted, t, "date"), last |-> AggLast(sorted, t, "date"),
                   max |-> rmax.date, min |-> rmin.date],
         price |-> [first |-> AggFirst(sorted, t, "price"), last |-> AggLast(sorted, t, "price"),
                    max |-> rmax.price, min |-> rmin.price]]

MakeTable(frame) == [t \in GroupKeys(frame) |-> SummaryRow(frame, t)]

MakeTableDf ==
    /\ pc = "df"
    /\ table' = MakeTable(df)
    /\ pc' = "table"
    /\ UNCHANGED <<ticker_list, api, task, results, requests, arrival, gathered,
                   token_prices, df, deposit, error, printed, chart>>

(***************************************************************************)
(* calculate_price_ratio, calculate_profit, print, show_chart              *)
(***************************************************************************)
PriceRatio(row) ==
    row @@ [r_last |-> Div(row.price.last, row.price.first),
            r_max |-> Div(row.price.max, row.price.first)]

CalculatePriceRatio ==
    /\ pc = "table"
    /\ table' = [t \in DOMAIN table |-> PriceRatio(table[t])]
    /\ pc' = "ratio"
    /\ UNCHANGED <<ticker_list, api, task, results, requests, arrival, gathered,
                   token_prices, df, deposit, error, printed, chart>>

\* The deposit grown by the ratio, without the deposit taken off.
ProfitNoSub(row, dep) ==
    row @@ [p_last |-> Mul(row.r_last, dep), p_max |-> Mul(row.r_max, dep)]

Profit(row, dep) ==
    row @@ [p_last |-> Sub(Mul(row.r_last, dep), dep),
            p_max |-> Sub(Mul(row.r_max, dep), dep)]

CalculateProfit ==
    /\ pc = "ratio"
    /\ \E dep \in Deposits :
          /\ deposit' = dep
          /\ table' = [t \in DOMAIN table |-> Profit(table[t], dep)]
    /\ pc' = "profit"
    /\ UNCHANGED <<ticker_list, api, task, results, requests, arrival, gathered,
                   token_prices, df, error, printed, chart>>

PrintTable ==
    /\ pc = "profit"
    /\ printed' = [done |-> TRUE, text |-> table]
    /\ pc' = "printed"
    /\ UNCHANGED <<ticker_list, api, task, results, requests, arrival, gathered,
                   token_prices, df, table, deposit, error, chart>>

Title == "Profit from 2021-01-01 to 2021-04-19"

ShowChart ==
    /\ pc = "printed"
    /\ chart' = [shown |-> TRUE, title |-> Title,
                 y |-> [t \in DOMAIN table |-> <<table[t].p_last, table[t].p_max>>]]
    /\ pc' = "done"
    /\ UNCHANGED <<ticker_list, api, task, results, requests, arrival, gathered,
                   token_prices, df, table, deposit, error, printed>>

Pipeline ==
    \/ HistoricalPricesToDf
    \/ MakeTableDf
    \/ CalculatePriceRatio
    \/ CalculateProfit
    \/ PrintTable
    \/ ShowChart

(***************************************************************************)
(* get_token_price_history and get_all_token_prices                        *)
(***************************************************************************)
N == Len(ticker_list)

\* A check that lets every status below 500 pass.
StatusServerError(status_code) == status_code >= 500

\* resp.status_code is not httpx.codes.OK.value
StatusNotOk(status_code) == status_code # OK

\* The event loop runs every callback that is ready before it polls the
\* network: no response is delivered while a task gather scheduled has not
\* yet run to its first await.
CanPoll == \A i \in 1..N : task[i] # "scheduled"

\* The results in the order the responses arrived.
GatherResultsAsCompleted(res) == [k \in 1..N |-> res[arrival'[k]]]

\* The list gather returns: the children's results, in the children's order.
GatherResults(res) == [i \in 1..N |-> res[i]]

\* Completion with the first child that finishes.
AnyFinished(tk) == \E i \in 1..N : tk[i] = "done"

\* gather completes with a result once every child has finished.
AllFinished(tk) == \A i \in 1..N : tk[i] = "done"

\* main calls get_all_token_prices: a coroutine per ticker, all handed to
\* asyncio.gather, which schedules a task for each; main awaits the future.
CallGather ==
    /\ pc = "start"
    /\ task' = [i \in 1..N |-> "scheduled"]
    /\ gathered' = IF N = 0 THEN [state |-> "result", value |-> <<>>, exc |-> NoError]
                   ELSE [state |-> "pending", value |-> <<>>, exc |-> NoError]
    /\ pc' = "gather"
    /\ UNCHANGED <<ticker_list, api, results, requests, arrival, token_prices, df,
                   table, deposit, error, printed, chart>>

\* A task's first step: the URL, the client and the GET, up to the await. The
\* loop runs the scheduled tasks first in, first out.
StartRequest(i) ==
    /\ task[i] = "scheduled"
    /\ \A j \in 1..(i - 1) : task[j] # "scheduled"
    /\ task' = [task EXCEPT ![i] = "awaiting"]
    /\ requests' = Append(requests, ticker_list[i])
    /\ UNCHANGED <<ticker_list, api, results, arrival, gathered, pc, token_prices, df,
                   table, deposit, error, printed, chart>>

\* A 200 response: the task returns resp.json(); gather's callback completes
\* the future when this was the last child.
RespondOk(i) ==
    /\ task[i] = "awaiting"
    /\ CanPoll
    /\ ~StatusNotOk(api[ticker_list[i]].status_code)
    /\ task' = [task EXCEPT ![i] = "done"]
    /\ results' = [results EXCEPT ![i] = api[ticker_list[i]].json]
    /\ arrival' = Append(arrival, i)
    /\ gathered' = IF gathered.state = "pending" /\ AllFinished(task')
                   THEN [gathered EXCEPT !.state = "result", !.value = GatherResults(results')]
                   ELSE gathered
    /\ UNCHANGED <<ticker_list, api, requests, pc, token_prices, df, table, deposit,
                   error, printed, chart>>

\* Any other response: the task raises; gather's callback hands the first
\* exception to the future and ignores later ones.
RespondError(i) ==
    /\ task[i] = "awaiting"
    /\ CanPoll
    /\ StatusNotOk(api[ticker_list[i]].status_code)
    /\ task' = [task EXCEPT ![i] = "raised"]
    /\ arrival' = Append(arrival, i)
    /\ gathered' = IF gathered.state = "pending"
                   THEN [gathered EXCEPT !.state = "exception",
                                         !.exc = [kind |-> "Exception",
                                                  ticker |-> ticker_list[i],
                                                  status_code |-> api[ticker_list[i]].status_code]]
                   ELSE gathered
    /\ UNCHANGED <<ticker_list, api, results, requests, pc, token_prices, df, table,
                   deposit, error, printed, chart>>

\* await asyncio.gather(...) returns the list; main binds token_prices.
GatherReturn ==
    /\ pc = "gather"
    /\ gathered.state = "result"
    /\ token_prices' = gathered.value
    /\ pc' = "fetched"
    /\ UNCHANGED <<ticker_list, api, task, results, requests, arrival, gathered, df,
                   table, deposit, error, printed, chart>>

\* await asyncio.gather(...) raises; nothing in main catches it, and
\* asyncio.run cancels the tasks still waiting for their response.
GatherRaise ==
    /\ pc = "gather"
    /\ gathered.state = "exception"
    /\ error' = gathered.exc
    /\ pc' = "failed"
    /\ task' = [i \in 1..N |-> IF task[i] = "awaiting" THEN "cancelled" ELSE task[i]]
    /\ UNCHANGED <<ticker_list, api, results, requests, arrival, gathered, token_prices,
                   df, table, deposit, printed, chart>>

Fetch ==
    \/ CallGather
    \/ \E i \in 1..N : StartRequest(i)
    \/ \E i \in 1..N : RespondOk(i)
    \/ \E i \in 1..N : RespondError(i)
    \/ GatherReturn
    \/ GatherRaise

(***************************************************************************)
(* Specifications                                                          *)
(***************************************************************************)
Responses(t) == {[status_code |-> sc, json |-> Json(h)] : sc \in StatusCodes,
                                                           h \in FetchHistories(t)}

\* main before its first statement, for every ticker list and every API.
Init ==
    /\ ticker_list \in InjectiveSeqs(Tickers, 0, MaxTickers)
    /\ api \in {a \in [Tickers -> UNION {Responses(t) : t \in Tickers}] :
                    \A t \in Tickers : a[t] \in Responses(t)}
    /\ task = [i \in 1..Len(ticker_list) |-> "new"]
    /\ results = [i \in 1..Len(ticker_list) |-> <<>>]
    /\ requests = <<>>
    /\ arrival = <<>>
    /\ gathered = NoFuture
    /\ pc = "start"
    /\ token_prices = <<>>
    /\ df = <<>>
    /\ table = <<>>
    /\ deposit = 0
    /\ error = NoError
    /\ printed = NotPrinted
    /\ chart = NoChart

Next == Fetch \/ Pipeline

Spec == Init /\ [][Next]_vars

RECURSIVE SumUpTo(_, _)
\* lens[1] + ... + lens[i]
SumUpTo(lens, i) == IF i = 0 THEN 0 ELSE lens[i] + SumUpTo(lens, i - 1)

\* The list of histories with lens[i] samples for the i-th ticker of tl, the
\* samples' dates and prices taken in order from ds and ps.
FetchedList(tl, lens, ds, ps) ==
    [i \in 1..Len(tl) |->
        Json([k \in 1..lens[i] |-> Sample(ds[SumUpTo(lens, i - 1) + k],
                                          ps[SumUpTo(lens, i - 1) + k], tl[i])])]

\* The API returns one sample per day for a ticker.
OneSamplePerDay(prices_list) ==
    \A i \in 1..Len(prices_list) :
       \A k, m \in 1..Len(prices_list[i].data.prices) :
          prices_list[i].data.prices[k].date = prices_list[i].data.prices[m].date => k = m

\* main after a fetch in which every request succeeded, for every list of
\* histories the API can have returned with at most MaxRows samples in all,
\* in any order of the days.
InitPipe ==
    /\ ticker_list \in InjectiveSeqs(PipeTickers, 0, Cardinality(PipeTickers))
    /\ \E lens \in [1..Len(ticker_list) -> 0..MaxRows] :
          /\ SumUpTo(lens, Len(ticker_list)) <= MaxRows
          /\ \E ds \in [1..SumUpTo(lens, Len(ticker_list)) -> RawDates],
                ps \in [1..SumUpTo(lens, Len(ticker_list)) -> Prices] :
                /\ token_prices = FetchedList(ticker_list, lens, ds, ps)
                /\ OneSamplePerDay(token_prices)
    /\ api = [t \in Tickers |->
                IF \E i \in 1..Len(ticker_list) : ticker_list[i] = t
                THEN [status_code |-> OK,
                      json |-> token_prices[CHOOSE i \in 1..Len(ticker_list) : ticker_list[i] = t]]
                ELSE [status_code |-> OK, json |-> Json(<<>>)]]
    /\ results = token_prices
    /\ gathered = [state |-> "result", value |-> token_prices, exc |-> NoError]
    /\ task = [i \in 1..Len(ticker_list) |-> "done"]
    /\ requests = ticker_list
    /\ arrival = [i \in 1..Len(ticker_list) |-> i]
    /\ pc = "fetched"
    /\ df = <<>>
    /\ table = <<>>
    /\ deposit = 0
    /\ error = NoError
    /\ printed = NotPrinted
    /\ chart = NoChart

SpecPipe == InitPipe /\ [][Pipeline]_vars

(***************************************************************************)
(* Properties                                                              *)
(***************************************************************************)
\* main holds the list gather returned.
Fetched == pc \notin {"start", "gather"} /\ error.kind # "Exception"

HasDf == pc \in {"df", "table", "ratio", "profit", "printed", "done"}
HasTable == pc \in {"table", "ratio", "profit", "printed", "done"}
HasRatio == pc \in {"ratio", "profit", "printed", "done"}
HasProfit == pc \in {"profit", "printed", "done"}

\* The samples of the i-th fetched history.
Fetch_prices(i) == token_prices[i].data.prices

\* The list positions whose request the API answers with another status than 200.
BadEntries == {i \in 1..N : api[ticker_list[i]].status_code # OK}

\* C1: get_all_token_prices issues one request per list entry and no more
\* (the k-th request is for the k-th ticker, never a second one for the same
\* entry), and when all succeed it returns N results, the i-th being the
\* response for the i-th ticker, whatever the order of arrival.
C1_OneRequestPerTickerInputOrder ==
    /\ Len(requests) <= N
    /\ \A k \in 1..Len(requests) : requests[k] = ticker_list[k]
    /\ Fetched => /\ Len(requests) = N
                  /\ Len(token_prices) = N
                  /\ \A i \in 1..N : token_prices[i] = api[ticker_list[i]].json

\* C1 witness: two responses that differ arrived in the reverse of the list
\* order and the list was returned.
C1_Witness ==
    /\ pc = "fetched"
    /\ N = 2
    /\ arrival = <<2, 1>>
    /\ token_prices[1] # token_prices[2]

\* C2: when some ticker's request is answered with a status other than 200,
\* main never gets a result list, prints nothing and shows no chart; the
\* gather future fails as soon as one task has raised; and the error main
\* ends with names a ticker whose response was not 200, with that status.
C2_NonOkFailsWholeBatch ==
    /\ BadEntries # {} => /\ pc \in {"start", "gather", "failed"}
                          /\ token_prices = <<>>
                          /\ ~printed.done
                          /\ ~chart.shown
    /\ (\E i \in 1..N : task[i] = "raised") => gathered.state = "exception"
    /\ (BadEntries # {} /\ pc = "failed") =>
          /\ error.kind = "Exception"
          /\ \E i \in BadEntries : /\ task[i] = "raised"
                                   /\ error.ticker = ticker_list[i]
                                   /\ error.status_code = api[ticker_list[i]].status_code
                                   /\ error.status_code # OK

\* C2 witness: a sibling's 200 response arrived first, then the bad one, and
\* main ended with the error.
C2_Witness ==
    /\ pc = "failed"
    /\ error.kind = "Exception"
    /\ N = 2
    /\ Len(arrival) = 2
    /\ task[arrival[1]] = "done"
    /\ task[arrival[2]] = "raised"
    /\ error.ticker = ticker_list[arrival[2]]

\* C3 (the claim as stated): when a ticker's 200 response holds no price
\* sample, the table is never printed and no chart is shown.
C3_EmptyHistoryFails ==
    (Fetched /\ \E i \in 1..Len(token_prices) : Fetch_prices(i) = <<>>)
        => (~printed.done /\ ~chart.shown /\ pc # "done")

\* C4 (the claim as stated): no ratio, profit or chart is produced for a
\* table in which some ticker's chronologically first price is zero or
\* negative.
C4_NonPositiveFirstPriceFails ==
    HasRatio => \A t \in DOMAIN table : table[t].price.first > 0

RECURSIVE Offset(_)
\* The number of samples in the histories before the i-th.
Offset(i) == IF i = 1 THEN 0 ELSE Offset(i - 1) + Len(Fetch_prices(i - 1))

C6_SummaryBounds ==
    HasTable =>
       \A t \in DOMAIN table :
          /\ table[t].date.first <= table[t].date.last
          /\ \A i \in GroupRows(df, t) : /\ table[t].price.min <= df[i].price
                                         /\ df[i].price <= table[t].price.max
          /\ table[t].price.min <= table[t].price.first
          /\ table[t].price.min <= table[t].price.last
          /\ table[t].price.first <= table[t].price.max
          /\ table[t].price.last <= table[t].price.max

\* C6 witness: a ticker whose smallest price is below its first price and
\* whose largest price is above its last, on a later day than the first.
C6_Witness ==
    /\ pc = "table"
    /\ \E t \in DOMAIN table : /\ table[t].price.min < table[t].price.first
                               /\ table[t].price.last < table[t].price.max
                               /\ table[t].date.first < table[t].date.max
                               /\ table[t].date.max < table[t].date.last

\* The history of the spec's scenario is among the fetched ones, at position i.
IsScenario(i) == Fetch_prices(i) = ScenarioPrices(ticker_list[i])

\* C7: for every ticker whose first price is positive, r_last and r_max are
\* price.last / price.first and price.max / price.first, and p_last and p_max
\* are r * deposit - deposit; the series (01-01, 100), (01-15, 150),
\* (02-01, 90) with deposit 1000 gives first 100, last 90, max 150,
\* p_last -100 and p_max 500.
C7_RatioAndProfit ==
    HasProfit =>
       /\ \A t \in DOMAIN table :
             table[t].price.first > 0 =>
                /\ table[t].r_last.d > 0
                /\ table[t].r_max.d > 0
                /\ table[t].p_last.d > 0
                /\ table[t].p_max.d > 0
                /\ table[t].r_last.n * table[t].price.first
                      = table[t].r_last.d * table[t].price.last
                /\ table[t].r_max.n * table[t].price.first
                      = table[t].r_max.d * table[t].price.max
                /\ table[t].p_last.n * table[t].price.first
                      = table[t].p_last.d * (table[t].price.last * deposit
                                                - table[t].price.first * deposit)
                /\ table[t].p_max.n * table[t].price.first
                      = table[t].p_max.d * (table[t].price.max * deposit
                                               - table[t].price.first * deposit)
       /\ \A i \in 1..N :
             (IsScenario(i) /\ deposit = DEPOSIT) =>
                /\ table[ticker_list[i]].price.first = 100
                /\ table[ticker_list[i]].price.last = 90
                /\ table[ticker_list[i]].price.max = 150
                /\ table[ticker_list[i]].r_last = [n |-> 9, d |-> 10]
                /\ table[ticker_list[i]].r_max = [n |-> 3, d |-> 2]
                /\ table[ticker_list[i]].p_last = [n |-> -100, d |-> 1]
                /\ table[ticker_list[i]].p_max = [n |-> 500, d |-> 1]

\* C7 witness: the scenario ran to the end with the deposit of 1000.
C7_Witness ==
    /\ pc = "done"
    /\ ticker_list = <<"AAA">>
    /\ IsScenario(1)
    /\ deposit = DEPOSIT
    /\ chart.y["AAA"] = <<[n |-> -100, d |-> 1], [n |-> 500, d |-> 1]>>

\* C8: no response is delivered before every request has been started; main
\* goes on only once the gather future is done, which is with a result only
\* when every task has finished and with an exception only when one has
\* raised; historical_prices_to_df runs only with no response outstanding.
C8_FanOutFanIn ==
    /\ (\E i \in 1..N : task[i] \in {"done", "raised"}) => Len(requests) = N
    /\ gathered.state = "result" => \A i \in 1..N : task[i] = "done"
    /\ gathered.state = "exception" => \E i \in 1..N : task[i] = "raised"
    /\ pc \notin {"start", "gather"} => gathered.state \in {"result", "exception"}
    /\ (Fetched \/ HasDf) => \A i \in 1..N : task[i] = "done"

\* C8 witness: with two tickers, the second response arrived first and the
\* frame was built after both.
C8_Witness ==
    /\ pc = "df"
    /\ N = 2
    /\ arrival = <<2, 1>>

====
